---- MODULE Spec2Model ----
(***************************************************************************)
(* Model of the progress-tracked URL-collection and download pipeline of   *)
(* the law-data crawler: the CSV ledger (download_urls.csv), the batch     *)
(* workers of UrlCollector.process_url_batch / collect_urls, the scheduler *)
(* of UrlCollector.process_url_collection, the retry driver                *)
(* process_all_urls, the run modes, login setup and download phase of      *)
(* main(), and the interrupt handling of ExitHandler.                      *)
(***************************************************************************)
EXTENDS Integers, Sequences, FiniteSets, TLC

(***************************************************************************)
(* Inputs and bounds                                                       *)
(***************************************************************************)
\* BatchProcessor.process_folder: the de-duplicated seed list
Seeds == <<"u1", "u2", "u3">>
\* multiprocessing.cpu_count() of the machine
CpuCount == 3
\* UrlCollector.max_retries
max_retries == 3
\* the links an extraction can find on a page ("" = none of that type)
DocLinks == {"", "d"}
PdfLinks == {"", "p"}
\* what each page can hold when it loads: <<doc link, pdf link>>
PageLinks == [u1 |-> {<<"", "">>, <<"d", "p">>},
              u2 |-> {<<"d", "">>, <<"d", "p">>},
              u3 |-> {<<"", "">>, <<"", "p">>}]
\* how many times the operator answers "y" to "Retry failed URLs?"
MaxRetryAnswers == 1
\* how many more times main() is run: "y" to "Continue processing?", or a new start
MaxRestarts == 1
\* the pages on which opening the page, reading the ledger or loading can raise
\* (the other pages always load while their browser is alive)
FaultyUrls == {"u1"}
\* the download targets whose HTTP GET can fail (the others always download)
FailingTargets == {<<"u2", "pdf">>}
\* how many times future.result(timeout=300) times out in one model run
MaxTimeouts == 1
\* how many runs of the program the operator interrupts
MaxInterrupts == 1
\* how many times executor.submit raises in one model run
MaxSubmitFailures == 1
\* the machines considered for url_threads: cpu_count() from 1 to MaxCpuCount
MaxCpuCount == 12
\* how many signals the handler followed step by step is sent
MaxExitSignals == 2
\* the longest list of URLs the batch partition is computed for on its own
MaxBatchInput == 10

\* the run modes of parse_args: full, --collect-only, --download-only, or both flags
Modes == {"full", "collect_only", "download_only", "both"}
\* the ExitHandler instances of one run of main(): main's own (line 180), the
\* one of ThreadSafeCollector's UrlCollector (line 183), the one of
\* UrlCollector() (line 184)
Handlers == {"main", "safe_collector", "url_collector"}
\* the file types of a download task
FileTypes == {"doc", "pdf"}

URL_STATUS_FOUND == "FOUND"
URL_STATUS_FAILED == "FAILED"
DOWNLOAD_STATUS_NOT_STARTED == "NOT_STARTED"
DOWNLOAD_STATUS_DONE == "DONE"
DOWNLOAD_STATUS_FAILED == "FAILED"

\* pandas' missing value, as read_csv produces it for an empty CSV field
NaN == "<NaN>"

Columns == {"timestamp", "page_url", "doc_url", "pdf_url", "url_status", "download_status"}

(***************************************************************************)
(* Sequence helpers                                                        *)
(***************************************************************************)
Range(s) == {s[i] : i \in DOMAIN s}

Min(a, b) == IF a < b THEN a ELSE b
Max(a, b) == IF a > b THEN a ELSE b

\* math.ceil(n / d) for positive d
Ceil(n, d) == (n + d - 1) \div d

(***************************************************************************)
(* The CSV file and its pandas round trip                                  *)
(***************************************************************************)
\* csv.writer.writerow of save_urls: one text row
CsvRow(ts, page_url, doc_url, pdf_url, url_status, download_status) ==
    [timestamp |-> ts, page_url |-> page_url, doc_url |-> doc_url, pdf_url |-> pdf_url,
     url_status |-> url_status, download_status |-> download_status]

\* pd.read_csv: an empty field becomes NaN, every other field keeps its text
read_field(v) == IF v = "" THEN NaN ELSE v
read_row(r) == [c \in Columns |-> IF c = "timestamp" THEN r[c] ELSE read_field(r[c])]
read_csv(file) == [i \in DOMAIN file |-> read_row(file[i])]

\* mutant: to_csv writes the missing value as text (na_rep="nan")
write_field_nan(v) == IF v = NaN THEN "nan" ELSE v

\* DataFrame.to_csv(index=False): NaN is written as an empty field
write_field(v) == IF v = NaN THEN "" ELSE v
write_row(r) == [c \in Columns |-> IF c = "timestamp" THEN r[c] ELSE write_field(r[c])]
to_csv(df) == [i \in DOMAIN df |-> write_row(df[i])]

\* pd.notna
notna(v) == v # NaN

(***************************************************************************)
(* ProgressTracker / UrlCollector ledger operations                        *)
(***************************************************************************)
\* mutant: the row reaches the file without its two status fields
save_urls_torn(file, ts, page_url, doc_url, pdf_url, url_status, download_status) ==
    Append(file, CsvRow(ts, page_url, doc_url, pdf_url, "", ""))

\* UrlCollector.save_urls: open(..., "a") and write one row
save_urls(file, ts, page_url, doc_url, pdf_url, url_status, download_status) ==
    Append(file, CsvRow(ts, page_url, doc_url, pdf_url, url_status, download_status))

\* UrlCollector.get_processed_urls: set(df["page_url"].values)
get_processed_urls(file) == {read_csv(file)[i].page_url : i \in DOMAIN file}

\* mutant: the filter returns every candidate
filter_unprocessed_urls_all(file, urls) == urls

\* ProgressTracker.filter_unprocessed_urls
filter_unprocessed_urls(file, urls) ==
    LET df == read_csv(file)
        processed_urls == {df[i].page_url : i \in DOMAIN df}
        NotProcessed(url) == url \notin processed_urls
    IN SelectSeq(urls, NotProcessed)

\* mutant: the pdf task is appended without the notna check
RowTasks_unchecked(row) ==
    (IF notna(row.doc_url)
        THEN <<[page_url |-> row.page_url, url |-> row.doc_url, type |-> "doc"]>>
        ELSE <<>>)
    \o <<[page_url |-> row.page_url, url |-> row.pdf_url, type |-> "pdf"]>>

\* the tasks get_pending_downloads appends for one row of found_urls
RowTasks(row) ==
    (IF notna(row.doc_url)
        THEN <<[page_url |-> row.page_url, url |-> row.doc_url, type |-> "doc"]>>
        ELSE <<>>)
    \o
    (IF notna(row.pdf_url)
        THEN <<[page_url |-> row.page_url, url |-> row.pdf_url, type |-> "pdf"]>>
        ELSE <<>>)

RECURSIVE TasksOf(_)
TasksOf(rows) == IF rows = <<>> THEN <<>> ELSE RowTasks(Head(rows)) \o TasksOf(Tail(rows))

\* mutant: the mask forgets download_status
IsPendingRow_found_only(row) == row.url_status = URL_STATUS_FOUND

\* the boolean mask of get_pending_downloads
IsPendingRow(row) ==
    /\ row.url_status = URL_STATUS_FOUND
    /\ row.download_status = DOWNLOAD_STATUS_NOT_STARTED

\* ProgressTracker.get_pending_downloads
get_pending_downloads(file) ==
    LET df == read_csv(file)
        found_urls == SelectSeq(df, IsPendingRow)
    IN TasksOf(found_urls)

\* df.loc[mask, "download_status"] = status
SetDownloadStatus(df, page_url, status) ==
    [i \in DOMAIN df |->
        IF df[i].page_url = page_url
            THEN [df[i] EXCEPT !.download_status = status]
            ELSE df[i]]

\* ProgressTracker.update_download_status
update_download_status(file, page_url, status) ==
    LET df == read_csv(file)
    IN IF \E i \in DOMAIN df : df[i].page_url = page_url
          THEN to_csv(SetDownloadStatus(df, page_url, status))
          ELSE file

\* mutant: every page_url of the ledger counts as failed
get_failed_urls_all(file) == [i \in DOMAIN file |-> file[i].page_url]

\* UrlCollector.get_failed_urls
get_failed_urls(file) ==
    LET df == read_csv(file)
        IsFailed(row) == row.url_status = URL_STATUS_FAILED
        failed == SelectSeq(df, IsFailed)
    IN [i \in DOMAIN failed |-> failed[i].page_url]

\* ProgressTracker.update_url_status, the ledger's upsert: overwrite the
\* mutable fields and the timestamp of the row with this key, else append
update_url_status(file, ts, page_url, doc_url, pdf_url, status) ==
    IF \E i \in DOMAIN file : file[i].page_url = page_url
        THEN [i \in DOMAIN file |->
                IF file[i].page_url = page_url
                    THEN CsvRow(ts, page_url, doc_url, pdf_url, status,
                                DOWNLOAD_STATUS_NOT_STARTED)
                    ELSE file[i]]
        ELSE Append(file, CsvRow(ts, page_url, doc_url, pdf_url, status,
                                 DOWNLOAD_STATUS_NOT_STARTED))

\* the first row of new_df for url: new_df[new_df["page_url"] == url].iloc[0]
FirstRowOf(df, url) == df[CHOOSE i \in DOMAIN df :
                            /\ df[i].page_url = url
                            /\ \A j \in DOMAIN df : df[j].page_url = url => i <= j]

\* process_all_urls, lines 555-563: df.loc[df["page_url"] == url] = new_result
\* for every url of failed_urls
RECURSIVE MergeRetry(_, _, _)
MergeRetry(df, new_df, failed_urls) ==
    IF failed_urls = <<>> THEN df
    ELSE LET url == Head(failed_urls)
             new_result == FirstRowOf(new_df, url)
             merged == [i \in DOMAIN df |->
                          IF df[i].page_url = url THEN new_result ELSE df[i]]
         IN MergeRetry(merged, new_df, Tail(failed_urls))

(***************************************************************************)
(* Batching                                                                *)
(***************************************************************************)
\* mutant: the pool size without its cap
url_threads_for_uncapped(cpu_count) == Max(2, cpu_count - 1)

\* UrlCollector.__init__, lines 36-37: max(2, min(cpu_count() - 1, 8))
url_threads_for(cpu_count) == Max(2, Min(cpu_count - 1, 8))

url_threads == url_threads_for(CpuCount)

\* unprocessed_urls[i : i + batch_size]
Slice(s, from, size) == SubSeq(s, from, Min(Len(s), from + size - 1))

\* mutant: the batch size rounded down
url_batches_for_floor(unprocessed_urls, threads) ==
    LET n == Len(unprocessed_urls)
        batch_size == Max(1, n \div threads)
        nb == Ceil(n, batch_size)
    IN [k \in 1..nb |-> Slice(unprocessed_urls, (k - 1) * batch_size + 1, batch_size)]

\* process_url_collection, lines 382-386: batch_size = ceil(N / threads), one
\* slice of batch_size URLs from every batch_size-th index on
url_batches_for(unprocessed_urls, threads) ==
    LET n == Len(unprocessed_urls)
        batch_size == Ceil(n, threads)
        nb == Ceil(n, batch_size)
    IN [k \in 1..nb |-> Slice(unprocessed_urls, (k - 1) * batch_size + 1, batch_size)]

url_batches(unprocessed_urls) == url_batches_for(unprocessed_urls, url_threads)

(***************************************************************************)
(* State                                                                   *)
(***************************************************************************)
VARIABLES
    ledger,       \* download_urls.csv: the rows below the header
    clock,        \* datetime.now(), advanced once per collection pass
    pc,           \* position of the main thread
    batches,      \* url_batches of the running pass
    w,            \* the batch tasks of the collection pool, by batch number
    fut,          \* the batch the submission loop is at, then the future the
                  \* result loop is waiting on
    todo,         \* the (url, doc_url, pdf_url) triples still to commit for fut
    failed_urls,  \* process_all_urls: failed_urls
    df,           \* process_all_urls: the snapshot read before the retry pass
    dl,           \* process_downloads: the tasks whose outcome is not recorded yet
    dlret,        \* where process_downloads returns to
    answers,      \* "y" answers to "Retry failed URLs?"
    restarts,     \* "y" answers to "Continue processing?"
    attempts,     \* per URL: extraction attempts of the running pass
    wcommits,     \* per URL: save_urls calls of the running pass
    scommits,     \* per URL: update_url_status calls of the running pass
    outcome,      \* per URL: what the extraction attempts of the pass returned
    expired,      \* the URLs of the batches whose result timed out in the pass
    timeouts,     \* result timeouts so far
    rejects,      \* executor.submit calls that raised so far
    interrupted,  \* runs interrupted so far
    truncated,    \* the ledger file was left cut by an interrupted rewrite
    signals,      \* SIGINT / SIGTERM deliveries to _handle_exit in the process
    mode,         \* args.collect_only / args.download_only of the run
    shutdown,     \* where the process is in its shutdown: running, the steps of
                  \* _handle_exit, terminated
    sigint,       \* the ExitHandler whose _handle_exit is the SIGINT/SIGTERM handler
    eh,           \* the fields of the ExitHandler instances
    exit_code,    \* the exit code of the process, once it has exited
    summary,      \* the durable exit summary
    logins,       \* first_setup calls that failed in the setup in progress
    files,        \* the download targets that exist with size > 0
    gets,         \* HTTP GET requests issued by the process, per download target
    dlresults,    \* process_downloads: the task results returned so far
    callers,      \* threads calling the ledger's operations side by side
    safe_collector, \* the ThreadSafeCollector and the batch tasks inside add_downloads
    exit_handling \* the ExitHandler that takes the signals, step by step through _handle_exit

vars == <<ledger, clock, pc, batches, w, fut, todo, failed_urls, df, dl, dlret,
          answers, restarts, attempts, wcommits, scommits, outcome, expired,
          timeouts, rejects, interrupted, truncated, signals, mode, shutdown, sigint, eh, exit_code,
          summary, logins, files, gets, dlresults, callers, safe_collector, exit_handling>>

sched == <<pc, batches, fut, todo>>
driver == <<failed_urls, df, dl, dlret, answers, restarts>>
history == <<attempts, wcommits, scommits, outcome, expired>>
proc == <<mode, shutdown, sigint, eh, exit_code, summary, logins>>
disk == <<files, gets, dlresults>>
env == <<timeouts, rejects, interrupted, truncated, signals, callers, safe_collector, exit_handling, proc, disk>>

Urls == Range(Seeds)
Pool == 1..url_threads

\* the download targets: downloads/<type>/<name from page_url>.<ext>
Targets == Urls \X FileTypes

NoTask == [pc |-> "none", idx |-> 0, retry_count |-> 0, attempt |-> 0, results |-> <<>>,
           browser |-> "none"]
Queued == [NoTask EXCEPT !.pc = "queued"]
\* a batch not submitted yet, and a batch whose executor.submit raised
Unsubmitted == [NoTask EXCEPT !.pc = "unsubmitted"]
Rejected == [NoTask EXCEPT !.pc = "rejected"]

\* ExitHandler.__init__, lines 18-25
NewExitHandler == [progress_tracker |-> FALSE, exit_requested |-> FALSE,
                   executors |-> FALSE, active_threads |-> 0]
NoHandlers == [h \in Handlers |-> NewExitHandler]

NoGets == [t \in Targets |-> 0]

\* no process has exited yet / no summary has been written
NoExit == <<>>
NoSummary == [written |-> FALSE]

Zero == [u \in Urls |-> 0]

\* what collect_urls got for a URL in the running pass
Outcome(kind, doc_url, pdf_url) == [kind |-> kind, doc_url |-> doc_url, pdf_url |-> pdf_url]
NoOutcome == [u \in Urls |-> Outcome("none", "", "")]

\* threads that call the ledger's operations side by side: two call
\* update_download_status, each for its page, and one calls save_urls
Updaters == {"dl1", "dl2"}
Callers == Updaters \cup {"col"}
PageOf == [dl1 |-> "u1", dl2 |-> "u2", col |-> "u3"]
Idle == [pc |-> "idle", df |-> <<>>, status |-> ""]
NoCallers == [c \in Callers |-> Idle]

\* a batch task of the pool as far as add_downloads is concerned
NotAdding == [pc |-> "collect", idx |-> 1, new_downloads |-> <<>>, calls |-> <<>>]
\* ThreadSafeCollector.__init__: the lock is free (0: no holder), downloads = []
NewCollector == [lock |-> 0, downloads |-> <<>>, tasks |-> [b \in Pool |-> NotAdding]]

\* an ExitHandler that has taken no signal
NotExiting == [step |-> "idle", exit_requested |-> FALSE, progress_tracker |-> FALSE,
               executors |-> FALSE, signals |-> 0, trace |-> <<>>, exit_code |-> <<>>]

Init ==
    /\ ledger = <<>>
    /\ clock = 0
    /\ pc = "start"
    /\ batches = <<>>
    /\ w = [b \in Pool |-> NoTask]
    /\ fut = 0
    /\ todo = <<>>
    /\ failed_urls = <<>>
    /\ df = <<>>
    /\ dl = <<>>
    /\ dlret = "none"
    /\ answers = 0
    /\ restarts = 0
    /\ attempts = Zero
    /\ wcommits = Zero
    /\ scommits = Zero
    /\ outcome = NoOutcome
    /\ expired = {}
    /\ timeouts = 0
    /\ rejects = 0
    /\ interrupted = 0
    /\ truncated = FALSE
    /\ signals = 0
    /\ mode = "none"
    /\ shutdown = "running"
    /\ sigint = "default"
    /\ eh = NoHandlers
    /\ exit_code = NoExit
    /\ summary = NoSummary
    /\ logins = 0
    /\ files = {}
    /\ gets = NoGets
    /\ dlresults = {}
    /\ callers = NoCallers
    /\ safe_collector = NewCollector
    /\ exit_handling = NotExiting

(***************************************************************************)
(* Batch workers: UrlCollector.process_url_batch and collect_urls          *)
(***************************************************************************)
\* mutant: collect_urls reports FOUND whatever it parsed
url_status_of_always_found(doc_url, pdf_url) == URL_STATUS_FOUND

\* collect_urls, lines 144-148
url_status_of(doc_url, pdf_url) ==
    IF doc_url # "" \/ pdf_url # "" THEN URL_STATUS_FOUND ELSE URL_STATUS_FAILED

Triple(url, doc_url, pdf_url) == [url |-> url, doc_url |-> doc_url, pdf_url |-> pdf_url]

\* mutant: the task returns its results without closing its browser
NextUrl_leaves_browser(t, batch) ==
    IF t.idx = Len(batch)
        THEN [t EXCEPT !.pc = "done"]
        ELSE [t EXCEPT !.pc = "url", !.idx = t.idx + 1, !.retry_count = 0, !.attempt = 0]

\* the for loop of process_url_batch moves on to the next URL, or returns results
NextUrl(t, batch) ==
    IF t.idx = Len(batch)
        THEN \* return results; finally: browser.close()
             [t EXCEPT !.pc = "done", !.browser = "closed"]
        ELSE [t EXCEPT !.pc = "url", !.idx = t.idx + 1, !.retry_count = 0, !.attempt = 0]

\* results.append((url, doc_url, pdf_url)); break
StoreResult(t, batch, url, doc_url, pdf_url) ==
    NextUrl([t EXCEPT !.results = Append(t.results, Triple(url, doc_url, pdf_url))], batch)

\* process_url_batch, lines 238-270: launch the browser and load the cookies;
\* without valid cookies the task raises (and closes its browser)
LaunchBatch(b) ==
    /\ w[b].pc = "queued"
    /\ \/ \* load_cookies(context) succeeds
          w' = [w EXCEPT ![b] = [@ EXCEPT !.pc = "url", !.idx = 1, !.browser = "open"]]
       \/ \* "No valid cookies found"; finally: browser.close()
          w' = [w EXCEPT ![b] = [@ EXCEPT !.pc = "raised", !.browser = "closed"]]
    /\ UNCHANGED <<ledger, clock, sched, driver, history, env>>

\* process_url_batch, lines 276-279 and 310-314, with collect_urls, lines 74-77:
\* open a page and read the processed URLs; a failure here is an exception of
\* collect_urls, counted by retry_count
BeginUrl(b) ==
    /\ w[b].pc = "url"
    /\ LET batch == batches[b]
           url == batch[w[b].idx]
       IN \/ \* context.new_page() or get_processed_urls raises
             /\ url \in FaultyUrls \/ w[b].browser = "killed"
             /\ w' = [w EXCEPT ![b] =
                     IF @.retry_count + 1 < max_retries
                         THEN [@ EXCEPT !.retry_count = @ + 1]
                         ELSE NextUrl(@, batch)]
          \/ \* already in the ledger: SKIPPED, returns "", ""
             /\ w[b].browser = "open"
             /\ url \in get_processed_urls(ledger)
             /\ w' = [w EXCEPT ![b] = StoreResult(@, batch, url, "", "")]
          \/ \* enters the attempt loop
             /\ w[b].browser = "open"
             /\ url \notin get_processed_urls(ledger)
             /\ w' = [w EXCEPT ![b] = [@ EXCEPT !.pc = "attempt", !.attempt = 0]]
    /\ UNCHANGED <<ledger, clock, sched, driver, history, env>>

\* collect_urls, lines 79-168: an attempt that loads the page and parses its links
AttemptSucceeds(b) ==
    /\ w[b].pc = "attempt"
    /\ w[b].browser = "open"
    /\ LET batch == batches[b]
           url == batch[w[b].idx]
       IN \E doc_url \in DocLinks, pdf_url \in PdfLinks :
            /\ <<doc_url, pdf_url>> \in PageLinks[url]
            /\ ledger' = save_urls(ledger, clock, url, doc_url, pdf_url,
                                   url_status_of(doc_url, pdf_url),
                                   DOWNLOAD_STATUS_NOT_STARTED)
            /\ w' = [w EXCEPT ![b] = StoreResult(@, batch, url, doc_url, pdf_url)]
            /\ attempts' = [attempts EXCEPT ![url] = @ + 1]
            /\ wcommits' = [wcommits EXCEPT ![url] = @ + 1]
            /\ outcome' = [outcome EXCEPT ![url] =
                             Outcome(IF doc_url # "" \/ pdf_url # "" THEN "links"
                                     ELSE "nolinks", doc_url, pdf_url)]
    /\ UNCHANGED <<clock, sched, driver, scommits, expired, env>>

\* collect_urls, lines 170-191: an attempt that raises; the last one saves FAILED
AttemptRaises(b) ==
    /\ w[b].pc = "attempt"
    /\ LET batch == batches[b]
           url == batch[w[b].idx]
           last == w[b].attempt = max_retries - 1
       IN /\ url \in FaultyUrls \/ w[b].browser = "killed"
          /\ attempts' = [attempts EXCEPT ![url] = @ + 1]
          /\ outcome' = [outcome EXCEPT ![url] = Outcome("errors", "", "")]
          /\ IF last
                THEN /\ ledger' = save_urls(ledger, clock, url, "", "", URL_STATUS_FAILED,
                                            DOWNLOAD_STATUS_NOT_STARTED)
                     /\ wcommits' = [wcommits EXCEPT ![url] = @ + 1]
                     /\ w' = [w EXCEPT ![b] = StoreResult(@, batch, url, "", "")]
                ELSE /\ w' = [w EXCEPT ![b] = [@ EXCEPT !.attempt = @ + 1]]
                     /\ UNCHANGED <<ledger, wcommits>>
    /\ UNCHANGED <<clock, sched, driver, scommits, expired, env>>

Worker(b) == LaunchBatch(b) \/ BeginUrl(b) \/ AttemptSucceeds(b) \/ AttemptRaises(b)

(***************************************************************************)
(* Scheduler: UrlCollector.process_url_collection                          *)
(***************************************************************************)
\* no batch task is running for this slot: nothing was submitted, or the
\* submitted task has returned or raised
Finished(t) == t.pc \in {"none", "unsubmitted", "rejected", "done", "raised"}

\* the futures list: the batches whose submit call returned a future
Submitted(t) == t.pc \notin {"none", "unsubmitted", "rejected"}

\* the future after future k in the futures list, 0 if there is none
NextFuture(ws, k) ==
    LET later == {j \in Pool : j > k /\ Submitted(ws[j])}
    IN IF later = {} THEN 0
       ELSE CHOOSE j \in later : \A i \in later : j <= i

\* mutant: the main thread goes on with the program while the handler runs
Running_always == TRUE

\* the main thread runs the program: no signal handler is executing on it and
\* the process has not exited
Running == shutdown = "running"

\* lines 365-413 for the seed list: filter, build the batches, enter the pool
BeginCollection ==
    /\ pc = "collect"
    /\ Running
    /\ LET saved_urls == Seeds
           unprocessed_urls == filter_unprocessed_urls(ledger, saved_urls)
       IN IF saved_urls = <<>> \/ unprocessed_urls = <<>>
             THEN \* "No new URLs to process!": return
                  /\ pc' = "check_failed"
                  /\ UNCHANGED <<clock, batches, w, fut, history, eh>>
             ELSE /\ batches' = url_batches(unprocessed_urls)
                  /\ eh' = [eh EXCEPT !["main"].executors = TRUE]
                  /\ w' = [b \in Pool |-> IF b \in DOMAIN batches' THEN Unsubmitted ELSE NoTask]
                  /\ fut' = 1
                  /\ pc' = "submit"
                  /\ clock' = clock + 1
                  /\ attempts' = Zero
                  /\ wcommits' = Zero
                  /\ scommits' = Zero
                  /\ outcome' = NoOutcome
                  /\ expired' = {}
    /\ UNCHANGED <<ledger, todo, driver, timeouts, rejects, interrupted, truncated, signals, callers, safe_collector, exit_handling, mode, shutdown, sigint, exit_code,
                   summary, logins, disk>>

\* line 418: the submission loop goes on while the flag it polls is not set
may_submit(h) == ~h.exit_requested

\* the submission loop is over: the results loop starts on the first future
LeaveSubmission(ws) ==
    LET first == NextFuture(ws, 0)
    IN /\ pc' = IF first = 0 THEN "pool_exit" ELSE "results"
       /\ fut' = first

\* lines 417-438, one turn of the submission loop for batch fut: break if the
\* polled flag is set; else executor.submit, which returns a future or raises
\* (the except of lines 436-438 logs the error and goes on with the next batch)
SubmitBatch ==
    /\ pc = "submit"
    /\ Running
    /\ IF ~may_submit(eh["main"])
          THEN /\ LeaveSubmission(w)
               /\ UNCHANGED <<w, rejects>>
          ELSE \E submitted \in BOOLEAN :
                /\ ~submitted => rejects < MaxSubmitFailures
                /\ rejects' = IF submitted THEN rejects ELSE rejects + 1
                /\ w' = [w EXCEPT ![fut] = IF submitted THEN Queued ELSE Rejected]
                /\ IF fut = Len(batches)
                      THEN LeaveSubmission(w')
                      ELSE pc' = "submit" /\ fut' = fut + 1
    /\ UNCHANGED <<ledger, clock, batches, todo, driver, history, timeouts, interrupted,
                   truncated, signals, callers, safe_collector, exit_handling, proc, disk>>

\* every URL of the batch as a FAILED triple (lines 476-489)
\* mutant: only the first URL of the batch is marked FAILED
FailedTriples_first(batch) == <<Triple(batch[1], "", "")>>

FailedTriples(batch) == [i \in DOMAIN batch |-> Triple(batch[i], "", "")]

\* after the triples of a future: the next future, or the end of the loop
AfterFuture(list) ==
    IF list # <<>>
        THEN /\ pc' = "commit"
             /\ fut' = fut
        ELSE LET next == NextFuture(w, fut)
             IN /\ pc' = IF next = 0 THEN "pool_exit" ELSE "results"
                /\ fut' = next

\* lines 448-452: future.result(timeout=300) returns the batch's results
ResultReturned ==
    /\ pc = "results"
    /\ Running
    /\ w[fut].pc = "done"
    /\ todo' = w[fut].results
    /\ AfterFuture(todo')
    /\ UNCHANGED <<ledger, clock, batches, w, driver, history, env>>

\* lines 474-489: the batch is still running after 300 s
ResultTimedOut ==
    /\ pc = "results"
    /\ Running
    /\ ~Finished(w[fut])
    /\ timeouts < MaxTimeouts
    /\ timeouts' = timeouts + 1
    /\ expired' = expired \cup Range(batches[fut])
    /\ todo' = FailedTriples(batches[fut])
    /\ AfterFuture(todo')
    /\ UNCHANGED <<ledger, clock, batches, w, driver, attempts, wcommits, scommits, outcome,
                   rejects, interrupted, truncated, signals, callers, safe_collector, exit_handling, proc, disk>>

\* lines 482-489: the batch task raised
ResultRaised ==
    /\ pc = "results"
    /\ Running
    /\ w[fut].pc = "raised"
    /\ todo' = FailedTriples(batches[fut])
    /\ AfterFuture(todo')
    /\ UNCHANGED <<ledger, clock, batches, w, driver, history, env>>

\* mutant: the scheduler commits FAILED for every triple
commit_status_always_failed(doc_url, pdf_url) == URL_STATUS_FAILED

\* lines 455-466 (and 478-488 with no links): the status the scheduler commits
commit_status(doc_url, pdf_url) ==
    IF doc_url # "" \/ pdf_url # "" THEN URL_STATUS_FOUND ELSE URL_STATUS_FAILED

\* lines 453-472 and 477-488: one update_url_status call
CommitResult ==
    /\ pc = "commit"
    /\ Running
    /\ LET r == Head(todo)
       IN /\ ledger' = update_url_status(ledger, clock, r.url, r.doc_url, r.pdf_url,
                                         commit_status(r.doc_url, r.pdf_url))
          /\ scommits' = [scommits EXCEPT ![r.url] = @ + 1]
    /\ todo' = Tail(todo)
    /\ AfterFuture(todo')
    /\ UNCHANGED <<clock, batches, w, driver, attempts, wcommits, outcome, expired, env>>

\* mutant: the with block is left without waiting for the batch tasks
PoolExit_nowait ==
    /\ pc = "pool_exit"
    /\ Running
    /\ pc' = "download_step"
    /\ UNCHANGED <<ledger, clock, batches, w, fut, todo, driver, history, env>>

\* lines 410 and 491-493: leaving the with block waits for every batch task
PoolExit ==
    /\ pc = "pool_exit"
    /\ Running
    /\ \A b \in Pool : Finished(w[b])
    /\ pc' = "download_step"
    /\ UNCHANGED <<ledger, clock, batches, w, fut, todo, driver, history, env>>

(***************************************************************************)
(* Downloads: DownloadManager.process_downloads                            *)
(***************************************************************************)
\* the locals of a collection pass go out of scope
PassLocalsReset ==
    /\ batches' = <<>>
    /\ w' = [b \in Pool |-> NoTask]
    /\ fut' = 0
    /\ attempts' = Zero
    /\ wcommits' = Zero
    /\ scommits' = Zero
    /\ outcome' = NoOutcome
    /\ expired' = {}

\* lines 495-506 of process_url_collection and main.py lines 238-247
StartDownloads(at, ret) ==
    /\ pc = at
    /\ Running
    /\ LET pending_downloads == get_pending_downloads(ledger)
       IN IF pending_downloads = <<>>
             THEN /\ pc' = ret
                  /\ UNCHANGED <<dl, dlret>>
             ELSE /\ pc' = "downloading"
                  /\ dl' = pending_downloads
                  /\ dlret' = ret
    /\ PassLocalsReset
    /\ UNCHANGED <<ledger, clock, todo, failed_urls, df, answers, restarts, env>>

DownloadStep == StartDownloads("download_step", "check_failed")

\* main.py line 238: the download phase, unless --collect-only
MainDownload ==
    /\ mode # "collect_only"
    /\ StartDownloads("main_download", "final_status")

\* main.py line 238 with --collect-only: no download phase
SkipDownload ==
    /\ pc = "main_download"
    /\ Running
    /\ mode = "collect_only"
    /\ pc' = "final_status"
    /\ PassLocalsReset
    /\ UNCHANGED <<ledger, clock, todo, driver, env>>

\* the target path of a task: downloads/<type>/<name from page_url>.<ext>
Target(t) == <<t.page_url, t.type>>

\* what requests.get and the write of the file can do: the request raises, or
\* it returns a status code, and with 200 the write of the chunks may raise
StatusCodes == {200, 404, 500}
Responses == [request_raises : BOOLEAN, status_code : StatusCodes, write_raises : BOOLEAN]
GoodResponse == [request_raises |-> FALSE, status_code |-> 200, write_raises |-> FALSE]

\* download_file, lines 186-201, the body of the try block: what it returns, or
\* "raises"
download_file_body(response) ==
    IF response.request_raises THEN "raises"
    ELSE IF response.status_code = 200
        THEN IF response.write_raises THEN "raises" ELSE "true"
        ELSE "false"

\* mutant: no except clause around the body
download_file_uncaught(response) == download_file_body(response)

\* download_file, lines 185-204: except Exception: return False
download_file(response) ==
    IF download_file_body(response) = "raises" THEN "false"
    ELSE download_file_body(response)

\* what a download worker returns for a task
TaskResult(t, skipped, returned) ==
    [page_url |-> t.page_url, type |-> t.type, skipped |-> skipped,
     returned |-> returned, success |-> returned = "true"]

PageResults(results, page) == {r \in results : r.page_url = page}

\* process_url, lines 239-251: the page is a success when downloaded_files is
\* not empty, that is when at least one of its files was downloaded
page_status(results) ==
    IF \E r \in results : r.success THEN DOWNLOAD_STATUS_DONE ELSE DOWNLOAD_STATUS_FAILED

\* process_url, lines 226-237, and download_file, line 192: requests.get is
\* issued for every file of the page, whether or not the target path exists
must_fetch(target, existing) == TRUE

RemoveAt(s, i) == SubSeq(s, 1, i - 1) \o SubSeq(s, i + 1, Len(s))

\* task i is the last task of its page whose outcome is not recorded yet
LastOfPage(i) == \A j \in DOMAIN dl : dl[j].page_url = dl[i].page_url => j = i

\* one task of the page in progress completes: the request, the file, the result
CompleteTask(i, response) ==
    LET t == dl[i]
        fetch == must_fetch(Target(t), files)
        returned == IF fetch THEN download_file(response) ELSE "true"
        success == returned = "true"
    IN /\ t.page_url = Head(dl).page_url
       /\ response # GoodResponse => fetch /\ Target(t) \in FailingTargets
       /\ gets' = IF fetch THEN [gets EXCEPT ![Target(t)] = @ + 1] ELSE gets
       /\ files' = IF fetch /\ success THEN files \cup {Target(t)} ELSE files
       /\ dl' = RemoveAt(dl, i)
       /\ dlresults' = dlresults \cup {TaskResult(t, ~fetch, returned)}

\* process_downloads: one task of the page in progress completes (in any order
\* within the page); when the page's last task completes its status is recorded
RecordDownload ==
    /\ pc = "downloading"
    /\ Running
    /\ dl # <<>>
    /\ \E i \in DOMAIN dl, response \in Responses :
        /\ CompleteTask(i, response)
        /\ ledger' = IF LastOfPage(i)
                         THEN update_download_status(ledger, dl[i].page_url,
                                  page_status(PageResults(dlresults', dl[i].page_url)))
                         ELSE ledger
    /\ UNCHANGED <<clock, pc, batches, w, fut, todo, failed_urls, df, dlret, answers,
                   restarts, history, timeouts, rejects, interrupted, truncated, signals, callers, safe_collector, exit_handling, proc>>

\* process_downloads returns
DownloadsReturn ==
    /\ pc = "downloading"
    /\ Running
    /\ dl = <<>>
    /\ pc' = dlret
    /\ dlresults' = {}
    /\ UNCHANGED <<ledger, clock, batches, w, fut, todo, driver, history, timeouts, rejects, interrupted, truncated, signals, callers, safe_collector, exit_handling, proc,
                   files, gets>>

(***************************************************************************)
(* Driver: UrlCollector.process_all_urls and main                          *)
(***************************************************************************)
\* process_all_urls, lines 531-534
CheckFailed ==
    /\ pc = "check_failed"
    /\ Running
    /\ failed_urls' = get_failed_urls(ledger)
    /\ pc' = IF failed_urls' = <<>> THEN "main_download" ELSE "prompt"
    /\ UNCHANGED <<ledger, clock, batches, w, fut, todo, df, dl, dlret, answers,
                   restarts, history, env>>

\* lines 537-539: the operator declines
DeclineRetry ==
    /\ pc = "prompt"
    /\ Running
    /\ pc' = "main_download"
    /\ failed_urls' = <<>>
    /\ UNCHANGED <<ledger, clock, batches, w, fut, todo, df, dl, dlret, answers, restarts,
                   history, env>>

\* lines 537-547: the operator accepts; the ledger is read into df
AcceptRetry ==
    /\ pc = "prompt"
    /\ Running
    /\ answers < MaxRetryAnswers
    /\ answers' = answers + 1
    /\ df' = read_csv(ledger)
    /\ pc' = "retry_pass"
    /\ UNCHANGED <<ledger, clock, batches, w, fut, todo, failed_urls, dl, dlret,
                   restarts, history, env>>

\* lines 542-552: process_url_collection(retry_processor, ...). retry_processor.urls
\* is a list, so BatchProcessor.process_folder raises (batch_processor.py lines
\* 48 and 83); the handler of lines 508-511 logs it and the pass returns
RetryPass ==
    /\ pc = "retry_pass"
    /\ Running
    /\ pc' = "merge"
    /\ UNCHANGED <<ledger, clock, batches, w, fut, todo, driver, history, env>>

\* lines 554-565: write the merged snapshot back and loop
MergeResults ==
    /\ pc = "merge"
    /\ Running
    /\ LET new_df == read_csv(ledger)
       IN ledger' = to_csv(MergeRetry(df, new_df, failed_urls))
    /\ pc' = "collect"
    /\ failed_urls' = <<>>
    /\ df' = <<>>
    /\ UNCHANGED <<clock, batches, w, fut, todo, dl, dlret, answers, restarts, history, env>>

\* main.py lines 250-272: the final report and, in full mode only, the
\* "Continue processing?" prompt; "y" runs main() again with the same arguments
FinalStatus ==
    /\ pc = "final_status"
    /\ Running
    /\ LET failed == Len(get_failed_urls(ledger))
           pending_count == Len(get_pending_downloads(ledger))
       IN IF mode = "full" /\ (failed > 0 \/ pending_count > 0)
             THEN \/ /\ pc' = "finished"
                     /\ exit_code' = <<0>>
                     /\ UNCHANGED restarts
                  \/ /\ restarts < MaxRestarts
                     /\ restarts' = restarts + 1
                     /\ pc' = "init_exit_handler"
                     /\ UNCHANGED exit_code
             ELSE /\ pc' = "finished"
                  /\ exit_code' = <<0>>
                  /\ UNCHANGED restarts
    /\ UNCHANGED <<ledger, clock, batches, w, fut, todo, failed_urls, df, dl, dlret,
                   answers, history, timeouts, rejects, interrupted, truncated, signals, callers, safe_collector, exit_handling, mode, shutdown, sigint, eh, summary,
                   logins, disk>>

(***************************************************************************)
(* Setup: parse_args, the components of main() and first_setup             *)
(***************************************************************************)
\* main.py lines 169-176: the mode flags; both flags together end the run
ParseArgs ==
    /\ pc = "start"
    /\ Running
    /\ \E m \in Modes :
        /\ mode' = m
        /\ IF m = "both"
              THEN pc' = "finished" /\ exit_code' = <<0>>
              ELSE pc' = "init_exit_handler" /\ UNCHANGED exit_code
    /\ UNCHANGED <<ledger, clock, batches, w, fut, todo, driver, history, timeouts, rejects, interrupted, truncated, signals, callers, safe_collector, exit_handling,
                   shutdown, sigint, eh, summary, logins, disk>>

\* ExitHandler.__init__ registers its own _handle_exit for SIGINT and SIGTERM
CreateHandler(h, next) ==
    /\ Running
    /\ eh' = [eh EXCEPT ![h] = NewExitHandler]
    /\ sigint' = h
    /\ pc' = next
    /\ UNCHANGED <<ledger, clock, batches, w, fut, todo, driver, history, timeouts, rejects, interrupted, truncated, signals, callers, safe_collector, exit_handling,
                   mode, shutdown, exit_code, summary, logins, disk>>

\* main.py lines 179-182: exit_handler = ExitHandler()
CreateExitHandler ==
    /\ pc = "init_exit_handler"
    /\ CreateHandler("main", "init_safe_collector")

\* main.py line 183: ThreadSafeCollector() builds a UrlCollector, which builds
\* an ExitHandler (url_collector.py line 33)
CreateSafeCollector ==
    /\ pc = "init_safe_collector"
    /\ CreateHandler("safe_collector", "init_url_collector")

\* main.py line 184: UrlCollector() builds another ExitHandler
CreateUrlCollector ==
    /\ pc = "init_url_collector"
    /\ CreateHandler("url_collector", "register")

\* main.py lines 185-200: register_components on main's handler, which also
\* replaces url_collector.exit_handler; then login unless --download-only
RegisterComponents ==
    /\ pc = "register"
    /\ Running
    /\ eh' = [eh EXCEPT !["main"].progress_tracker = TRUE]
    /\ pc' = IF mode = "download_only" THEN "main_download" ELSE "login"
    /\ UNCHANGED <<ledger, clock, batches, w, fut, todo, driver, history, timeouts, rejects, interrupted, truncated, signals, callers, safe_collector, exit_handling,
                   mode, shutdown, sigint, exit_code, summary, logins, disk>>

\* mutant: a failed setup is retried in visible mode whatever the mode it ran in
retry_visible_always(headless) == TRUE

\* main.py line 204: a failed setup is retried in visible mode if it ran headless
retry_visible(headless) == headless

\* main.py lines 200-218 with first_setup: a failed headless setup is retried
\* once in visible mode; any other failure ends the run
FirstSetup ==
    /\ pc \in {"login", "login_visible"}
    /\ Running
    /\ \E headless \in (IF pc = "login" THEN BOOLEAN ELSE {FALSE}),
          login_success \in BOOLEAN :
        IF login_success
            THEN /\ pc' = "collect"
                 /\ logins' = 0
                 /\ UNCHANGED exit_code
            ELSE /\ logins' = logins + 1
                 /\ IF retry_visible(headless)
                       THEN pc' = "login_visible" /\ UNCHANGED exit_code
                       ELSE pc' = "finished" /\ exit_code' = <<0>>
    /\ UNCHANGED <<ledger, clock, batches, w, fut, todo, driver, history, timeouts, rejects, interrupted, truncated, signals, callers, safe_collector, exit_handling,
                   mode, shutdown, sigint, eh, summary, disk>>

(***************************************************************************)
(* Shutdown: ExitHandler._handle_exit                                      *)
(***************************************************************************)
\* the process has not exited
Alive == shutdown # "terminated" /\ pc \notin {"start", "finished"}

\* what is left of the process after it has exited: the files
ProcessGone ==
    /\ pc' = "exited"
    /\ PassLocalsReset
    /\ todo' = <<>>
    /\ failed_urls' = <<>>
    /\ df' = <<>>
    /\ dl' = <<>>
    /\ dlret' = "none"
    /\ logins' = 0
    /\ dlresults' = {}
    /\ gets' = NoGets
    /\ UNCHANGED <<ledger, clock, answers, restarts, timeouts, rejects, interrupted, truncated, mode,
                   sigint, files, callers, safe_collector, exit_handling>>

\* mutant: the handler never takes an interrupt for a second one
IsForceExit_never(h) == FALSE

\* _handle_exit, line 86: an interrupt while exit_requested is set
IsForceExit(h) == h.exit_requested

\* _handle_exit, lines 91-96, on the first interrupt: set the flag and run
\* _cleanup_threads, which waits only while active_threads is not empty
FirstInterrupt ==
    /\ Alive
    /\ sigint \in Handlers
    /\ ~IsForceExit(eh[sigint])
    /\ shutdown = "running" => interrupted < MaxInterrupts
    /\ interrupted' = IF shutdown = "running" THEN interrupted + 1 ELSE interrupted
    /\ signals' = signals + 1
    /\ eh' = [eh EXCEPT ![sigint].exit_requested = TRUE]
    /\ shutdown' = "cleanup_processes"
    /\ UNCHANGED <<clock, batches, w, fut, todo, history, timeouts, rejects, mode, sigint,
                   exit_code, summary, logins, callers, safe_collector, exit_handling>>

\* the interrupt arrives between two operations of the main thread
HandleExit ==
    /\ FirstInterrupt
    /\ UNCHANGED <<ledger, pc, driver, truncated, disk>>

\* DataFrame.to_csv(path) opens the file for writing, which truncates it, and the
\* rows reach the file when the handle is flushed at close (the ledgers of the
\* model fit in the write buffer). An interrupt in between runs _handle_exit on
\* the main thread, which ends in os._exit and never returns to the write
to_csv_interrupted(df_) == <<>>

\* process_all_urls, line 565: the interrupt arrives inside df.to_csv
MergeInterrupted ==
    /\ pc = "merge"
    /\ Running
    /\ FirstInterrupt
    /\ ledger' = to_csv_interrupted(MergeRetry(df, read_csv(ledger), failed_urls))
    /\ truncated' = TRUE
    /\ UNCHANGED <<pc, driver, disk>>

\* update_download_status, line 185: the interrupt arrives inside df.to_csv
DownloadInterrupted ==
    /\ pc = "downloading"
    /\ Running
    /\ dl # <<>>
    /\ FirstInterrupt
    /\ \E i \in DOMAIN dl, response \in Responses :
        /\ LastOfPage(i)
        /\ CompleteTask(i, response)
        /\ ledger' = to_csv_interrupted(
                         SetDownloadStatus(read_csv(ledger), dl[i].page_url,
                             page_status(PageResults(dlresults', dl[i].page_url))))
    /\ truncated' = TRUE
    /\ UNCHANGED <<pc, failed_urls, df, dlret, answers, restarts>>

\* _cleanup_threads, lines 70-75: the handler sleeps until the deadline only
\* while active_threads is not empty
cleanup_threads_waits(h) == h.active_threads > 0

\* _cleanup_processes, lines 41-56: SIGTERM to every chrome / chromium process
CleanupProcesses ==
    /\ shutdown = "cleanup_processes"
    /\ w' = [b \in Pool |->
                IF w[b].browser = "open"
                    THEN [w[b] EXCEPT !.browser = "killed"]
                    ELSE w[b]]
    /\ shutdown' = "final_statistics"
    /\ UNCHANGED <<ledger, clock, pc, batches, fut, todo, driver, history, timeouts, rejects, interrupted, truncated, signals, callers, safe_collector, exit_handling,
                   mode, sigint, eh, exit_code, summary, logins, disk>>

\* the totals _process_final_statistics reads from the ledger (lines 121-128)
FinalStatistics(file) ==
    LET df_ == read_csv(file)
        Count(col, v) == Cardinality({i \in DOMAIN df_ : df_[i][col] = v})
    IN [written |-> TRUE,
        total |-> Len(df_),
        found |-> Count("url_status", URL_STATUS_FOUND),
        failed |-> Count("url_status", URL_STATUS_FAILED),
        complete |-> Count("download_status", DOWNLOAD_STATUS_DONE),
        pending |-> Count("download_status", DOWNLOAD_STATUS_NOT_STARTED),
        downloads_failed |-> Count("download_status", DOWNLOAD_STATUS_FAILED)]

\* _handle_exit, lines 101-117: the statistics if a progress tracker is
\* registered on this handler, _cleanup_components, restore_terminal, os._exit(0)
ExitGracefully ==
    /\ shutdown = "final_statistics"
    /\ summary' = IF eh[sigint].progress_tracker THEN FinalStatistics(ledger) ELSE summary
    /\ exit_code' = <<0>>
    /\ shutdown' = "terminated"
    /\ ProcessGone
    /\ UNCHANGED <<eh, signals>>

\* _handle_exit, lines 86-89, on an interrupt while exit_requested is set:
\* restore_terminal and os._exit(1)
ForceExit ==
    /\ Alive
    /\ sigint \in Handlers
    /\ IsForceExit(eh[sigint])
    /\ signals' = signals + 1
    /\ exit_code' = <<1>>
    /\ shutdown' = "terminated"
    /\ ProcessGone
    /\ UNCHANGED <<eh, summary>>

\* the operator starts the program again: a new process over the same files
\* (runs over a ledger file that was left without its header are not followed)
StartAgain ==
    /\ pc \in {"finished", "exited"}
    /\ ~truncated
    /\ restarts < MaxRestarts
    /\ restarts' = restarts + 1
    /\ pc' = "start"
    /\ mode' = "none"
    /\ gets' = NoGets
    /\ shutdown' = "running"
    /\ sigint' = "default"
    /\ eh' = NoHandlers
    /\ exit_code' = NoExit
    /\ logins' = 0
    /\ signals' = 0
    /\ UNCHANGED <<ledger, clock, batches, w, fut, todo, failed_urls, df, dl, dlret,
                   answers, history, timeouts, rejects, interrupted, truncated, summary, files,
                   dlresults, callers, safe_collector, exit_handling>>

Next ==
    \/ \E b \in Pool : Worker(b)
    \/ ParseArgs
    \/ CreateExitHandler
    \/ CreateSafeCollector
    \/ CreateUrlCollector
    \/ RegisterComponents
    \/ FirstSetup
    \/ BeginCollection
    \/ SubmitBatch
    \/ ResultReturned
    \/ ResultTimedOut
    \/ ResultRaised
    \/ CommitResult
    \/ PoolExit
    \/ DownloadStep
    \/ MainDownload
    \/ SkipDownload
    \/ RecordDownload
    \/ DownloadsReturn
    \/ CheckFailed
    \/ DeclineRetry
    \/ AcceptRetry
    \/ RetryPass
    \/ MergeResults
    \/ FinalStatus
    \/ HandleExit
    \/ MergeInterrupted
    \/ DownloadInterrupted
    \/ CleanupProcesses
    \/ ExitGracefully
    \/ ForceExit
    \/ StartAgain

Spec == Init /\ [][Next]_vars

(***************************************************************************)
(* The ledger's mutating operations called by several threads              *)
(***************************************************************************)
\* the ledgers the callers start from: the pages of the updaters collected or
\* not, with or without links, in either order
StartRows(u) == {CsvRow(0, u, doc_url, pdf_url, url_status_of(doc_url, pdf_url),
                        DOWNLOAD_STATUS_NOT_STARTED) :
                    doc_url \in DocLinks, pdf_url \in PdfLinks}
StartLedgers ==
    {<<>>} \cup {<<r>> : r \in StartRows("u1") \cup StartRows("u2")}
           \cup {<<r, q>> : r \in StartRows("u1"), q \in StartRows("u2")}
           \cup {<<q, r>> : r \in StartRows("u1"), q \in StartRows("u2")}

\* every variable but the ledger, the callers and the accumulator
others == <<clock, pc, batches, w, fut, todo, failed_urls, df, dl, dlret, answers,
            restarts, attempts, wcommits, scommits, outcome, expired, timeouts, rejects,
            interrupted, truncated, signals, mode, shutdown, sigint, eh, exit_code,
            summary, logins, files, gets, dlresults>>

LedgerInit ==
    /\ ledger \in StartLedgers
    /\ clock = 0
    /\ pc = "start"
    /\ batches = <<>>
    /\ w = [b \in Pool |-> NoTask]
    /\ fut = 0
    /\ todo = <<>>
    /\ failed_urls = <<>>
    /\ df = <<>>
    /\ dl = <<>>
    /\ dlret = "none"
    /\ answers = 0
    /\ restarts = 0
    /\ attempts = Zero
    /\ wcommits = Zero
    /\ scommits = Zero
    /\ outcome = NoOutcome
    /\ expired = {}
    /\ timeouts = 0
    /\ rejects = 0
    /\ interrupted = 0
    /\ truncated = FALSE
    /\ signals = 0
    /\ mode = "none"
    /\ shutdown = "running"
    /\ sigint = "default"
    /\ eh = NoHandlers
    /\ exit_code = NoExit
    /\ summary = NoSummary
    /\ logins = 0
    /\ files = {}
    /\ gets = NoGets
    /\ dlresults = {}
    /\ callers = NoCallers
    /\ safe_collector = NewCollector
    /\ exit_handling = NotExiting

\* update_download_status, line 179: df = pd.read_csv(self.progress_file, dtype=str)
CallerRead(c) ==
    /\ c \in Updaters
    /\ callers[c].pc = "idle"
    /\ \E status \in {DOWNLOAD_STATUS_DONE, DOWNLOAD_STATUS_FAILED} :
          callers' = [callers EXCEPT ![c] =
                         [pc |-> "read", df |-> read_csv(ledger), status |-> status]]
    /\ UNCHANGED <<ledger, others, safe_collector, exit_handling>>

\* update_download_status, lines 182-189: with a row of the page in df, set its
\* status and write df back
CallerWrite(c) ==
    /\ c \in Updaters
    /\ callers[c].pc = "read"
    /\ LET df_ == callers[c].df
       IN ledger' = IF \E i \in DOMAIN df_ : df_[i].page_url = PageOf[c]
                       THEN to_csv(SetDownloadStatus(df_, PageOf[c], callers[c].status))
                       ELSE ledger
    /\ callers' = [callers EXCEPT ![c].pc = "done", ![c].df = <<>>]
    /\ UNCHANGED <<others, safe_collector, exit_handling>>

\* save_urls, lines 212-223: append one row
CallerAppend(c) ==
    /\ c \notin Updaters
    /\ callers[c].pc = "idle"
    /\ \E doc_url \in DocLinks, pdf_url \in PdfLinks :
          ledger' = save_urls(ledger, 0, PageOf[c], doc_url, pdf_url,
                              url_status_of(doc_url, pdf_url),
                              DOWNLOAD_STATUS_NOT_STARTED)
    /\ callers' = [callers EXCEPT ![c].pc = "done"]
    /\ UNCHANGED <<others, safe_collector, exit_handling>>

LedgerNext == \E c \in Callers : CallerRead(c) \/ CallerWrite(c) \/ CallerAppend(c)

LedgerSpec == LedgerInit /\ [][LedgerNext]_vars

\* the runs in which no SIGINT / SIGTERM is delivered
NoSignalNext ==
    \/ \E b \in Pool : Worker(b)
    \/ ParseArgs
    \/ CreateExitHandler
    \/ CreateSafeCollector
    \/ CreateUrlCollector
    \/ RegisterComponents
    \/ FirstSetup
    \/ BeginCollection
    \/ SubmitBatch
    \/ ResultReturned
    \/ ResultTimedOut
    \/ ResultRaised
    \/ CommitResult
    \/ PoolExit
    \/ DownloadStep
    \/ MainDownload
    \/ SkipDownload
    \/ RecordDownload
    \/ DownloadsReturn
    \/ CheckFailed
    \/ DeclineRetry
    \/ AcceptRetry
    \/ RetryPass
    \/ MergeResults
    \/ FinalStatus
    \/ StartAgain

\* the threads of the process are scheduled, the operator answers the prompts and
\* requests get their response or their error: the program takes its next step
NoSignalSpec == Init /\ [][NoSignalNext]_vars /\ WF_vars(NoSignalNext)

(***************************************************************************)
(* Properties                                                              *)
(***************************************************************************)
RowsOf(file, url) == {i \in DOMAIN file : file[i].page_url = url}

\* the URLs of the running pass
PassUrls == UNION {Range(batches[b]) : b \in DOMAIN batches}

\* the commit loop has finished and the pool has been left
PassCommitted == pc = "download_step"

IsFound(row) == row.url_status = URL_STATUS_FOUND
IsDone(row) == row.download_status = DOWNLOAD_STATUS_DONE
HasLink(row) == row.doc_url # "" \/ row.pdf_url # ""

\* C1: in every reachable ledger state each page_url has at most one row, whatever
\* the interleaving of save_urls, scheduler commits and retry merges.
C1_UniquePageUrl == \A u \in Urls : Cardinality(RowsOf(ledger, u)) <= 1

LinkField(row, type) == IF type = "doc" THEN row.doc_url ELSE row.pdf_url

\* the (row, type) pairs that call for a task: FOUND, NOT_STARTED, link not empty
PendingCells(file) ==
    {c \in (DOMAIN file) \X {"doc", "pdf"} :
        /\ file[c[1]].url_status = URL_STATUS_FOUND
        /\ file[c[1]].download_status = DOWNLOAD_STATUS_NOT_STARTED
        /\ LinkField(file[c[1]], c[2]) # ""}

\* C2: get_pending_downloads returns exactly one task (page_url, file url, type)
\* per non-empty doc_url and per non-empty pdf_url of every FOUND / NOT_STARTED
\* row, and no task for any other row or for an empty link field.
C2_PendingDerivation ==
    LET tasks == get_pending_downloads(ledger)
        cells == PendingCells(ledger)
    IN /\ Len(tasks) = Cardinality(cells)
       /\ Range(tasks) = {[page_url |-> ledger[c[1]].page_url,
                           url |-> LinkField(ledger[c[1]], c[2]),
                           type |-> c[2]] : c \in cells}

\* a ledger with a pending row holding both links, a pending row with one link
\* field empty or a FAILED row, and a row that is no longer NOT_STARTED
C2_Witness ==
    /\ \E i \in DOMAIN ledger :
        /\ IsFound(ledger[i])
        /\ ledger[i].download_status = DOWNLOAD_STATUS_NOT_STARTED
        /\ ledger[i].doc_url # "" /\ ledger[i].pdf_url # ""
    /\ \E i \in DOMAIN ledger : ledger[i].url_status = URL_STATUS_FAILED
    /\ \E i \in DOMAIN ledger :
        /\ IsFound(ledger[i])
        /\ ledger[i].download_status # DOWNLOAD_STATUS_NOT_STARTED

\* C3: a URL whose extraction raises on every attempt is attempted exactly 3 times
\* in a pass and yields exactly one commit (no commit per attempt, no further
\* commit by the scheduler); a URL that succeeds on attempt k <= 3 is attempted k
\* times and yields exactly one commit.
C3_SingleCommit ==
    PassCommitted =>
        \A u \in PassUrls :
            /\ outcome[u].kind = "errors" =>
                  attempts[u] = max_retries /\ wcommits[u] + scommits[u] = 1
            /\ outcome[u].kind \in {"links", "nolinks"} =>
                  attempts[u] <= max_retries /\ wcommits[u] + scommits[u] = 1

\* C4: when a collection pass has run to completion, every URL of the unprocessed
\* set has a ledger row whose url_status is FOUND or FAILED.
C4_EveryUrlGetsRow ==
    PassCommitted =>
        \A u \in PassUrls :
            \E i \in RowsOf(ledger, u) :
                ledger[i].url_status \in {URL_STATUS_FOUND, URL_STATUS_FAILED}

\* C5: every ledger row with url_status = FOUND has a non-empty doc_url or pdf_url.
C5_FoundHasLink == \A i \in DOMAIN ledger : IsFound(ledger[i]) => HasLink(ledger[i])

\* a FOUND row that has been through a download-status update and a retry merge
C5_Witness ==
    /\ answers >= 1
    /\ pc = "collect"
    /\ \E i \in DOMAIN ledger : IsFound(ledger[i]) /\ IsDone(ledger[i])

\* what C6 says of one URL of the pass
StatusMatchesExtraction(u) ==
    /\ outcome[u].kind = "links" =>
          /\ Cardinality(RowsOf(ledger, u)) = 1
          /\ \A i \in RowsOf(ledger, u) :
                /\ ledger[i].url_status = URL_STATUS_FOUND
                /\ ledger[i].download_status = DOWNLOAD_STATUS_NOT_STARTED
                /\ ledger[i].doc_url = outcome[u].doc_url
                /\ ledger[i].pdf_url = outcome[u].pdf_url
    /\ outcome[u].kind = "nolinks" =>
          /\ RowsOf(ledger, u) # {}
          /\ \A i \in RowsOf(ledger, u) : ledger[i].url_status = URL_STATUS_FAILED
    /\ \A i \in RowsOf(ledger, u) : IsFound(ledger[i]) <=> outcome[u].kind = "links"

\* C6 as stated: after a collection pass over URLs not in the ledger, a URL
\* whose extraction returned a link has the row (FOUND, NOT_STARTED, the links),
\* a URL whose extraction returned no link is FAILED, and FOUND holds if and
\* only if a link was extracted.
C6_StatusMatchesExtraction ==
    PassCommitted => \A u \in PassUrls : StatusMatchesExtraction(u)

\* C6 (amended): the same, for the URLs of the batches whose result was
\* retrieved before the 300 s timeout, at the end of the commit loop.
C6_StatusMatchesExtractionInTime ==
    PassCommitted => \A u \in PassUrls \ expired : StatusMatchesExtraction(u)

\* a committed pass with a URL that had links and a URL that had none
C6_Witness ==
    /\ PassCommitted
    /\ \E u \in PassUrls \ expired : outcome[u].kind = "links"
    /\ \E u \in PassUrls \ expired : outcome[u].kind = "nolinks"

DoneUrls(file) == {file[i].page_url : i \in {j \in DOMAIN file : IsDone(file[j])}}

\* C7: once a page_url has download_status = DONE, every later step leaves its
\* rows in the ledger with download_status = DONE, and no pass selects it for
\* extraction.
C7_DoneIsFinal ==
    [][\A u \in DoneUrls(ledger) :
          /\ RowsOf(ledger', u) # {}
          /\ \A i \in RowsOf(ledger', u) : IsDone(ledger'[i])
          /\ u \notin UNION {Range(batches'[b]) : b \in DOMAIN batches'}
          /\ attempts'[u] <= attempts[u]]_vars

\* a DONE row that has lived through a retry merge and a restart of main()
C7_Witness ==
    /\ restarts >= 1
    /\ answers >= 1
    /\ pc = "finished"
    /\ DoneUrls(ledger) # {}

\* every seed URL is fully processed: collected (FOUND) and downloaded (DONE)
AllSeedsDone ==
    \A u \in Urls :
        /\ RowsOf(ledger, u) # {}
        /\ \A i \in RowsOf(ledger, u) : IsFound(ledger[i]) /\ IsDone(ledger[i])

\* C8: with every seed URL DONE, running the pipeline is a no-op: no step
\* changes the ledger, creates a worker pool, attempts an extraction or starts
\* a download.
C8_RerunIsNoOp ==
    [][AllSeedsDone =>
          /\ ledger' = ledger
          /\ pc' \notin {"submit", "results", "commit", "pool_exit"}
          /\ \A b \in Pool : w'[b] = NoTask
          /\ attempts' = Zero
          /\ dl' = <<>>
          /\ \A t \in Targets : gets'[t] <= gets[t]]_vars

\* a second run of main() that ended over a ledger that was all DONE when it
\* started (the only pass that created a pool is the first run's)
C8_Witness ==
    /\ restarts >= 1
    /\ mode = "full"
    /\ clock = 1
    /\ pc = "finished"
    /\ AllSeedsDone

\* C9: filter_unprocessed_urls returns exactly the candidates that have no row
\* with download_status = DONE.
C9_UnprocessedIsNotDone ==
    LET NotDone(u) == u \notin DoneUrls(ledger)
    IN filter_unprocessed_urls(ledger, Seeds) = SelectSeq(Seeds, NotDone)

\* on this ledger, an update changes the download_status of the rows of its page
\* and nothing else
UpdatesOnlyDownloadStatus(file) ==
    \A u \in Urls \cup {"unknown"} :
        \A status \in {DOWNLOAD_STATUS_DONE, DOWNLOAD_STATUS_FAILED} :
            LET new == update_download_status(file, u, status)
            IN /\ DOMAIN new = DOMAIN file
               /\ \A i \in DOMAIN file :
                    new[i] = IF file[i].page_url = u
                                THEN [file[i] EXCEPT !.download_status = status]
                                ELSE file[i]

\* C10: update_download_status(page_url, status) changes only the download_status
\* of the rows whose page_url is the argument; the other fields, the other rows
\* and the order stay as they are, and an unknown page_url changes nothing.
\* (Stated for the first ledger and for the ledger after every step that changes
\* it, which are all the ledgers the program has.)
C10_UpdateOnlyDownloadStatus ==
    /\ UpdatesOnlyDownloadStatus(ledger)
    /\ [][ledger' # ledger => UpdatesOnlyDownloadStatus(ledger')]_vars

\* the update has been applied to a ledger that also holds a row with empty fields
C10_Witness ==
    /\ pc = "downloading"
    /\ \E i \in DOMAIN ledger : ledger[i].download_status # DOWNLOAD_STATUS_NOT_STARTED
    /\ \E i \in DOMAIN ledger : ledger[i].doc_url = "" /\ ledger[i].pdf_url = ""

(***************************************************************************)
(* Shutdown properties                                                     *)
(***************************************************************************)
\* a row with its five status-relevant fields written and consistent
WellFormedRow(row) ==
    /\ row.page_url \in Urls
    /\ row.doc_url \in DocLinks \cup {""}
    /\ row.pdf_url \in PdfLinks \cup {""}
    /\ row.url_status \in {URL_STATUS_FOUND, URL_STATUS_FAILED}
    /\ row.download_status \in {DOWNLOAD_STATUS_NOT_STARTED, DOWNLOAD_STATUS_DONE,
                                DOWNLOAD_STATUS_FAILED}
    /\ IsFound(row) => HasLink(row)

\* the first interrupt has been taken and its cleanup is in progress
ShutdownRequested == shutdown \in {"cleanup_processes", "final_statistics"}

\* the main thread is in the collection pool of process_url_collection, the
\* only place where collection workers write results
InCollection == pc \in {"submit", "results", "commit", "pool_exit"}

\* C11: when the interrupt arrives during collection, from the interrupt to the
\* exit of the process, while collection workers go on writing results, every
\* row of the ledger is a whole row (all of page_url, doc_url, pdf_url,
\* url_status and download_status written and consistent) and no row written
\* earlier is lost or changed.
C11_ShutdownKeepsRowsWhole ==
    [][(InCollection /\ shutdown' # "running") =>
          /\ \A i \in DOMAIN ledger' : WellFormedRow(ledger'[i])
          /\ Len(ledger) <= Len(ledger')
          /\ \A i \in DOMAIN ledger : ledger'[i] = ledger[i]]_vars

\* a worker whose browser was killed by the shutdown has written its row while
\* the handler was running, and another worker is still at work
C11_Witness ==
    /\ shutdown = "final_statistics"
    /\ \E u \in Urls \ FaultyUrls : outcome[u].kind = "errors" /\ wcommits[u] = 1
    /\ \E b \in Pool : w[b].pc \notin {"none", "queued", "done"}

\* C12: every shutdown triggered by an interrupt ends with a non-zero exit code,
\* after the first interrupt's cleanup as well as after a second interrupt.
C12_InterruptExitsNonZero == shutdown = "terminated" => exit_code \notin {NoExit, <<0>>}

\* C13: a shutdown started by a first interrupt and run to its end has written
\* the totals by status of the ledger to the exit summary, whichever ExitHandler
\* instance received the signal.
C13_SummaryWritten ==
    (shutdown = "terminated" /\ signals = 1) => summary = FinalStatistics(ledger)

\* C14: an interrupt received in SHUTDOWN_REQUESTED terminates the process in
\* that step with exit code 1, without another browser kill, statistics or
\* summary step; no step leads from SHUTDOWN_REQUESTED back to RUNNING, and the
\* only step out of TERMINATED is the start of a new process.
C14_SecondInterruptIsImmediate ==
    [][/\ ShutdownRequested => shutdown' # "running"
       /\ (ShutdownRequested /\ signals' # signals) =>
             /\ shutdown' = "terminated"
             /\ exit_code' = <<1>>
             /\ summary' = summary
             /\ eh' = eh
             /\ \A b \in Pool : w'[b] = NoTask
       /\ shutdown = "terminated" => (shutdown' = "terminated" \/ pc' = "start")]_vars

\* a second interrupt has ended a shutdown that was in progress
C14_Witness == shutdown = "terminated" /\ signals > 1 /\ exit_code = <<1>>

(***************************************************************************)
(* Retry, modes and login properties                                       *)
(***************************************************************************)
\* C15: when the retry the operator accepted has been merged, each retried
\* page_url has exactly one row, and that row holds what the retry pass got for
\* it: the pass extracted the page again, and a page with links is FOUND with
\* those links.
C15_RetryReplacesRow ==
    [][(pc = "merge" /\ pc' = "collect") =>
          \A u \in Range(failed_urls) :
              /\ Cardinality(RowsOf(ledger', u)) = 1
              /\ outcome[u].kind # "none"
              /\ outcome[u].kind = "links" =>
                    \A i \in RowsOf(ledger', u) :
                        /\ IsFound(ledger'[i])
                        /\ ledger'[i].doc_url = outcome[u].doc_url
                        /\ ledger'[i].pdf_url = outcome[u].pdf_url]_vars

\* C16: in collect-only mode no download is dispatched and no download_status
\* changes; in download-only mode there is no login, no browser and no
\* extraction attempt; with both flags there is neither collection nor download.
C16_ModesAreExclusive ==
    [][/\ mode' = "collect_only" =>
             /\ pc' # "downloading"
             /\ \A t \in Targets : gets'[t] <= gets[t]
             /\ Len(ledger') >= Len(ledger)
             /\ \A i \in DOMAIN ledger :
                    ledger'[i].page_url = ledger[i].page_url =>
                        ledger'[i].download_status = ledger[i].download_status
       /\ mode' = "download_only" =>
             /\ pc' \notin {"login", "login_visible", "collect", "submit", "results", "commit"}
             /\ logins' = 0
             /\ \A b \in Pool : w'[b] = NoTask
             /\ attempts' = Zero
       /\ mode' = "both" =>
             /\ pc' \in {"finished", "start"}
             /\ ledger' = ledger
             /\ \A b \in Pool : w'[b] = NoTask
             /\ dl' = <<>>]_vars

\* C17: in collect-only and download-only mode no operator prompt is issued.
C17_NoPromptWhenNonInteractive ==
    mode \in {"collect_only", "download_only"} => pc # "prompt"

\* C18: a failed session setup aborts the run: setup is attempted at most twice
\* (once headless, once visible), the failure that is not retried ends the run,
\* and neither that step nor the aborted run starts a collection pass or a
\* download or writes the ledger.
C18_LoginFailureAborts ==
    [][/\ (pc \in {"login", "login_visible"} /\ logins' > logins) =>
             /\ logins' <= 2
             /\ pc' \in {"login_visible", "finished"}
             /\ pc = "login_visible" => pc' = "finished"
             /\ ledger' = ledger
             /\ \A b \in Pool : w'[b] = NoTask
             /\ attempts' = Zero
             /\ dl' = <<>>
             /\ gets' = gets
       /\ (pc = "finished" /\ logins > 0) => (pc' = "start" /\ ledger' = ledger)]_vars

\* a run over a ledger with rows has been aborted after the headless setup and
\* its visible retry both failed
C18_Witness ==
    /\ pc = "finished"
    /\ logins = 2
    /\ ledger # <<>>

(***************************************************************************)
(* Download properties                                                     *)
(***************************************************************************)
\* C19: a download task whose target path exists with size > 0 is completed
\* without an HTTP request.
C19_ExistingFileNotFetched ==
    [][\A t \in Targets : t \in files => gets'[t] <= gets[t]]_vars

\* the tasks of a page have all completed
PageCompleted(page) ==
    /\ PageResults(dlresults, page) # {}
    /\ \A i \in DOMAIN dl : dl[i].page_url # page

\* C20: a page whose tasks have all completed is recorded DONE only if every
\* task succeeded, and FAILED if one of them failed, in whatever order the
\* results arrived.
C20_DoneOnlyIfAllSucceed ==
    \A page \in Urls :
        PageCompleted(page) =>
            \A i \in RowsOf(ledger, page) :
                IF \A r \in PageResults(dlresults, page) : r.success
                    THEN ledger[i].download_status = DOWNLOAD_STATUS_DONE
                    ELSE ledger[i].download_status = DOWNLOAD_STATUS_FAILED

(***************************************************************************)
(* Ledger durability, shutdown of the pools, scheduling                    *)
(***************************************************************************)
PageUrls(file) == {file[i].page_url : i \in DOMAIN file}

\* C21: the set of page_urls present in the ledger never shrinks: no step
\* (collection commit, download-status update, retry merge, restart, shutdown)
\* removes a page_url that had a row before it.
C21_PageUrlsNeverShrink == [][PageUrls(ledger) \subseteq PageUrls(ledger')]_vars

\* some batch task has been submitted and has neither returned nor raised
InFlight == \E b \in Pool : ~Finished(w[b])

\* C23: after the first interrupt the handler goes on to terminating the browser
\* processes only when no batch task is in flight or after it has waited for
\* the grace deadline.
C23_GraceWaitBeforeKill ==
    [][(shutdown = "cleanup_processes" /\ shutdown' = "final_statistics") =>
          ~InFlight \/ cleanup_threads_waits(eh[sigint])]_vars

StartsAttempt(t, t2) ==
    /\ t2.pc = "attempt"
    /\ t.pc # "attempt" \/ t2.idx # t.idx \/ t2.attempt # t.attempt

\* C25: once shutdown has been requested, a batch worker in flight starts no new
\* extraction attempt, neither a retry of its current URL nor the first attempt
\* of the next URL of its batch.
C25_NoAttemptAfterShutdown ==
    [][ShutdownRequested => \A b \in Pool : ~StartsAttempt(w[b], w'[b])]_vars

\* the result of batch b was not retrieved: the wait timed out or the task raised
ResultLost(b) == w[b].pc = "raised" \/ Range(batches[b]) \subseteq expired

\* C26: when retrieving a batch's result times out or the batch task raises,
\* every URL of that batch is committed as FAILED, and the results of the other
\* batches are still retrieved and committed.
C26_LostBatchIsFailed ==
    PassCommitted =>
        \A b \in DOMAIN batches :
            IF ~Submitted(w[b]) THEN TRUE
            ELSE IF ResultLost(b)
                THEN \A u \in Range(batches[b]) :
                        /\ scommits[u] >= 1
                        /\ \E i \in RowsOf(ledger, u) :
                               ledger[i].url_status = URL_STATUS_FAILED
                ELSE \A k \in DOMAIN w[b].results : scommits[w[b].results[k].url] >= 1

\* a pass in which the result of one batch was lost and the result of another
\* batch, with a link, was retrieved and committed
C26_Witness ==
    /\ PassCommitted
    /\ \E b \in DOMAIN batches : Submitted(w[b]) /\ ResultLost(b)
    /\ \E b \in DOMAIN batches :
          /\ Submitted(w[b])
          /\ ~ResultLost(b)
          /\ \E k \in DOMAIN w[b].results :
                /\ scommits[w[b].results[k].url] >= 1
                /\ w[b].results[k].doc_url # ""

\* C27: when submitting a batch to the pool fails, every URL of that batch is
\* committed to the ledger as FAILED, and the remaining batches are still
\* submitted.
C27_RejectedBatchIsFailed ==
    PassCommitted =>
        \A b \in DOMAIN batches :
            /\ w[b] # Unsubmitted
            /\ w[b] = Rejected =>
                  \A u \in Range(batches[b]) :
                      /\ scommits[u] >= 1
                      /\ \E i \in RowsOf(ledger, u) :
                             ledger[i].url_status = URL_STATUS_FAILED

\* C28: when the operator accepts a retry, the retry pass performs an extraction
\* attempt for every page_url that was FAILED in the ledger at that moment and
\* for no other page_url.
C28_RetryAttemptsTheFailed ==
    [][(pc = "retry_pass" /\ pc' = "merge") =>
          \A u \in Urls : attempts'[u] > attempts[u] <=> u \in Range(failed_urls)]_vars

\* the ledger has a row with url_status = FAILED
HasFailedRow == \E i \in DOMAIN ledger : ledger[i].url_status = URL_STATUS_FAILED

\* process_all_urls has returned to main
Returned == pc = "main_download"

\* C29: process_all_urls terminates. After a collection pass it returns without
\* a prompt when the ledger has no FAILED row, it prompts only when a FAILED row
\* exists, it returns as soon as the operator declines, and every call returns
\* (in the runs that no signal ends).
C29_ProcessAllUrlsTerminates ==
    /\ [][/\ (pc = "check_failed" /\ pc' # pc /\ ~HasFailedRow) => Returned'
          /\ (pc # "prompt" /\ pc' = "prompt") => HasFailedRow
          /\ (pc = "prompt" /\ pc' # pc /\ answers' = answers) => Returned']_vars
    /\ (pc = "collect") ~> Returned

\* process_all_urls has returned after the operator accepted a retry and then
\* declined the next prompt
C29_Witness ==
    /\ pc = "main_download"
    /\ answers >= 1
    /\ HasFailedRow
    /\ shutdown = "running"

\* the batch tasks whose browser instance is open
OpenBrowsers == {b \in Pool : w[b].browser = "open"}

\* the position of url in batch
PlaceIn(batch, url) == CHOOSE i \in DOMAIN batch : batch[i] = url

\* the results of a batch task are those of the first URLs of its batch, in
\* batch order, and the task is at one URL, the next one
InBatchOrder(b) ==
    LET res == w[b].results
    IN /\ \A k \in DOMAIN res : res[k].url \in Range(batches[b])
       /\ \A k, l \in DOMAIN res :
              k < l => PlaceIn(batches[b], res[k].url) < PlaceIn(batches[b], res[l].url)
       /\ \A k \in DOMAIN res :
              w[b].pc \in {"url", "attempt"} => PlaceIn(batches[b], res[k].url) < w[b].idx

C22_NoLostUpdate ==
    (\A c \in Callers : callers[c].pc = "done") =>
        /\ RowsOf(ledger, PageOf["col"]) # {}
        /\ \A c \in Updaters :
              \A i \in RowsOf(ledger, PageOf[c]) :
                  ledger[i].download_status = callers[c].status

(***************************************************************************)
(* Batches, the two pools, failures                                        *)
(***************************************************************************)
RECURSIVE Flatten(_)
Flatten(ss) == IF ss = <<>> THEN <<>> ELSE Head(ss) \o Flatten(Tail(ss))

\* bs is an order-preserving partition of list into non-empty batches of at
\* most ceil(N / threads) URLs
IsPartition(bs, list, threads) ==
    /\ Flatten(bs) = list
    /\ \A k \in DOMAIN bs : bs[k] # <<>> /\ Len(bs[k]) <= Ceil(Len(list), threads)

\* the lists and pool sizes the partition is computed for on its own
BatchInputs == {[i \in 1..n |-> i] : n \in 1..MaxBatchInput}
PoolSizes == {url_threads_for(cpu_count) : cpu_count \in 1..MaxCpuCount}

\* the pass that starts in this step, and the list it is about to split
StartsPass == pc = "collect" /\ pc' = "submit"
Unprocessed == filter_unprocessed_urls(ledger, Seeds)

\* C31 (as stated): the batches of a pass are an order-preserving partition of
\* the unprocessed list into non-empty batches of at most ceil(N/T) URLs, and
\* there are T batches.
C31_PartitionInTBatches ==
    /\ \A list \in BatchInputs, threads \in PoolSizes :
          /\ IsPartition(url_batches_for(list, threads), list, threads)
          /\ Len(url_batches_for(list, threads)) = threads
    /\ [][StartsPass =>
             /\ IsPartition(batches', Unprocessed, url_threads)
             /\ Len(batches') = url_threads]_vars

\* C31 (amended): the batches of a pass are an order-preserving partition of the
\* unprocessed list into non-empty batches of at most ceil(N/T) URLs, and there
\* are ceil(N / ceil(N/T)) batches, which is at most T.
C31_PartitionInAtMostTBatches ==
    /\ \A list \in BatchInputs, threads \in PoolSizes :
          LET n == Len(list)
          IN /\ IsPartition(url_batches_for(list, threads), list, threads)
             /\ Len(url_batches_for(list, threads)) = Ceil(n, Ceil(n, threads))
             /\ Len(url_batches_for(list, threads)) <= threads
    /\ [][StartsPass =>
             /\ IsPartition(batches', Unprocessed, url_threads)
             /\ Len(batches') = Ceil(Len(Unprocessed), Ceil(Len(Unprocessed), url_threads))
             /\ Len(batches') <= url_threads]_vars

\* a pass over one URL has started: one batch for a pool of two threads
C31_Witness ==
    /\ pc = "submit"
    /\ Len(batches) = 1
    /\ Len(batches) < url_threads
    /\ Len(batches[1]) = 1

\* C32: the two pools never run side by side: no download phase is entered and
\* no download task completes while a collection batch task is still running,
\* in every mode, for the download step of process_url_collection and for
\* main's download phase.
C32_PoolsNeverOverlap ==
    /\ [](pc = "downloading" => ~InFlight)
    /\ [][(pc' \in {"download_step", "main_download", "downloading"} \/ dl' # dl) =>
             ~InFlight]_vars

\* the download step of a pass has started its downloads after the result of a
\* batch had timed out with its task still running
C32_Witness ==
    /\ pc = "downloading"
    /\ dlret = "check_failed"
    /\ timeouts >= 1
    /\ dl # <<>>

\* the request and the write went through with status 200
Downloaded(response) ==
    /\ ~response.request_raises
    /\ response.status_code = 200
    /\ ~response.write_raises

\* C33: a single file download reports failure, never success, when the HTTP
\* status is not 200 or when the request or the file write raises; the failure
\* is returned as a value, no exception leaves the download operation.
C33_DownloadFailureIsAValue ==
    /\ \A response \in Responses :
          /\ download_file(response) \in {"true", "false"}
          /\ download_file(response) = "true" <=> Downloaded(response)
    /\ [](\A r \in dlresults :
             /\ r.returned \in {"true", "false"}
             /\ r.success <=> r.returned = "true"
             /\ r.success => Target(r) \in files)

\* of the two files of a page, one download has failed and the other one has
\* succeeded
C33_Witness ==
    /\ pc = "downloading"
    /\ \E r, q \in dlresults :
          /\ r.page_url = q.page_url
          /\ r.returned = "false" /\ Target(r) \notin files
          /\ q.returned = "true" /\ Target(q) \in files

(***************************************************************************)
(* Errors of the ledger file                                               *)
(***************************************************************************)
\* pd.read_csv on the ledger file: a file cut to zero bytes by an interrupted
\* rewrite has no header line and read_csv raises EmptyDataError
read_csv_raises(cut) == cut

\* ProgressTracker.filter_unprocessed_urls: read_csv outside any try
filter_unprocessed_urls_on(cut) == IF read_csv_raises(cut) THEN "raises" ELSE "returns"

\* ProgressTracker.get_pending_downloads: read_csv outside any try
get_pending_downloads_on(cut) == IF read_csv_raises(cut) THEN "raises" ELSE "returns"

\* ProgressTracker.update_download_status: the whole body is in try/except
\* Exception, which logs and returns
update_download_status_on(cut) == IF read_csv_raises(cut) THEN "no_op" ELSE "returns"

\* UrlCollector.get_processed_urls: read_csv outside any try
get_processed_urls_on(cut) == IF read_csv_raises(cut) THEN "raises" ELSE "returns"

LedgerOperations == {"filter_unprocessed_urls", "get_pending_downloads",
                     "update_download_status", "get_processed_urls"}

\* what the caller of a ledger operation gets
LedgerCall(op, cut) ==
    CASE op = "filter_unprocessed_urls" -> filter_unprocessed_urls_on(cut)
      [] op = "get_pending_downloads" -> get_pending_downloads_on(cut)
      [] op = "update_download_status" -> update_download_status_on(cut)
      [] op = "get_processed_urls" -> get_processed_urls_on(cut)

\* C34: a read error of the ledger file is not propagated by any ledger
\* operation: whenever the ledger file is unreadable, each of
\* filter_unprocessed_urls, get_pending_downloads, update_download_status and
\* get_processed_urls returns to its caller (an empty result or a no-op)
\* instead of raising.
C34_LedgerErrorsAreContained ==
    \A op \in LedgerOperations : LedgerCall(op, truncated) # "raises"

(***************************************************************************)
(* The shared accumulator: ThreadSafeCollector.add_downloads called by the *)
(* batch tasks of one pass over the seed list                              *)
(***************************************************************************)
\* process_url_batch, lines 283-300: the tasks built from the links of a page
NewDownloads(url, doc_url, pdf_url) ==
    (IF doc_url # "" THEN <<[page_url |-> url, url |-> doc_url, type |-> "doc"]>> ELSE <<>>)
    \o (IF pdf_url # "" THEN <<[page_url |-> url, url |-> pdf_url, type |-> "pdf"]>> ELSE <<>>)

\* the batches of the pass
CollectorBatches == url_batches(Seeds)

\* the task goes on with the next URL of its batch, or returns
AfterUrl(t, batch) ==
    IF t.idx < Len(batch) THEN [t EXCEPT !.pc = "collect", !.idx = @ + 1, !.new_downloads = <<>>]
    ELSE [t EXCEPT !.pc = "done", !.new_downloads = <<>>]

\* process_url_batch, lines 278-301: collect_urls returns the links of the page;
\* with a link, add_downloads is called with the tasks
CollectLinks(b) ==
    /\ safe_collector.tasks[b].pc = "collect"
    /\ LET batch == CollectorBatches[b]
           url == batch[safe_collector.tasks[b].idx]
       IN \E doc_url \in DocLinks, pdf_url \in PdfLinks :
            /\ <<doc_url, pdf_url>> \in PageLinks[url]
            /\ safe_collector' =
                 [safe_collector EXCEPT !.tasks[b] =
                    IF doc_url # "" \/ pdf_url # ""
                        THEN [@ EXCEPT !.pc = "acquire",
                                       !.new_downloads = NewDownloads(url, doc_url, pdf_url),
                                       !.calls = Append(@, NewDownloads(url, doc_url, pdf_url))]
                        ELSE AfterUrl(@, batch)]
    /\ UNCHANGED <<ledger, others, callers, exit_handling>>

\* with self.lock: entered without waiting for the holder
lock_acquirable_always(lock) == TRUE

\* with self.lock: entered when no other thread holds the lock
lock_acquirable(lock) == lock = 0

\* add_downloads, line 29: with self.lock
AcquireLock(b) ==
    /\ safe_collector.tasks[b].pc = "acquire"
    /\ lock_acquirable(safe_collector.lock)
    /\ safe_collector' = [safe_collector EXCEPT !.lock = b, !.tasks[b].pc = "extend"]
    /\ UNCHANGED <<ledger, others, callers, exit_handling>>

\* add_downloads, line 30: self.downloads.extend(new_downloads), one element
\* after the other
Extend(b) ==
    /\ safe_collector.tasks[b].pc = "extend"
    /\ LET new_downloads == safe_collector.tasks[b].new_downloads
       IN IF new_downloads = <<>>
             THEN safe_collector' = [safe_collector EXCEPT !.tasks[b].pc = "release"]
             ELSE safe_collector' = [safe_collector EXCEPT
                                        !.downloads = Append(@, Head(new_downloads)),
                                        !.tasks[b].new_downloads = Tail(@)]
    /\ UNCHANGED <<ledger, others, callers, exit_handling>>

\* add_downloads: the with block is left, the lock is released
ReleaseLock(b) ==
    /\ safe_collector.tasks[b].pc = "release"
    /\ safe_collector' = [safe_collector EXCEPT
                             !.lock = 0,
                             !.tasks[b] = AfterUrl(@, CollectorBatches[b])]
    /\ UNCHANGED <<ledger, others, callers, exit_handling>>

CollectorInit == ledger = <<>> /\ LedgerInit

CollectorNext ==
    \E b \in DOMAIN CollectorBatches :
        CollectLinks(b) \/ AcquireLock(b) \/ Extend(b) \/ ReleaseLock(b)

CollectorSpec == CollectorInit /\ [][CollectorNext]_vars

\* every batch task of the pass has returned
AllBatchesComplete == \A b \in DOMAIN CollectorBatches : safe_collector.tasks[b].pc = "done"

\* the lists passed to add_downloads so far
Calls == UNION {Range(safe_collector.tasks[b].calls) : b \in DOMAIN CollectorBatches}

\* the list is found whole, in its order, in the accumulator
Whole(list) ==
    \E i \in 1..(Len(safe_collector.downloads) - Len(list) + 1) :
        SubSeq(safe_collector.downloads, i, i + Len(list) - 1) = list

\* C35: for every interleaving of the batch tasks calling add_downloads, once
\* all batches are complete the accumulator holds exactly the tasks that were
\* passed to add_downloads, each once (none lost, none doubled), the tasks of
\* one call next to each other in their order (none torn), and these are one
\* task per non-empty link of a page whose links were extracted.
C35_NoAppendLostOrTorn ==
    AllBatchesComplete =>
        LET downloads == safe_collector.downloads
        IN /\ Range(downloads) = UNION {Range(list) : list \in Calls}
           /\ Cardinality(Range(downloads)) = Len(downloads)
           /\ \A list \in Calls : Whole(list)
           /\ \A i \in DOMAIN downloads :
                 /\ downloads[i].url # ""
                 /\ \E links \in PageLinks[downloads[i].page_url] :
                       downloads[i].url = (IF downloads[i].type = "doc" THEN links[1] ELSE links[2])
           /\ \A i, j \in DOMAIN downloads :
                 downloads[i].page_url = downloads[j].page_url /\ downloads[i].type = downloads[j].type
                     => i = j

\* all batches are complete after the second batch task called add_downloads
\* between two calls of the first: every page had links, five tasks were added
C35_Witness ==
    /\ AllBatchesComplete
    /\ Len(safe_collector.downloads) = 5
    /\ safe_collector.downloads[3].page_url = "u3"

(***************************************************************************)
(* Which ExitHandler takes the signal                                      *)
(***************************************************************************)
\* main() has initialized and registered its components
ComponentsRegistered == eh["main"].progress_tracker

\* C36: once main() has initialized its components, the interrupt signal is
\* handled by main's ExitHandler, the instance the progress tracker and the
\* worker pool are registered with and whose exit_requested flag the
\* collection scheduler polls; the ExitHandler instances built by the
\* UrlCollectors do not take the signal over, and a handled interrupt has set
\* that flag.
C36_SignalReachesMainHandler ==
    /\ ComponentsRegistered /\ Alive => sigint = "main"
    /\ ComponentsRegistered /\ signals > 0 => eh["main"].exit_requested

(***************************************************************************)
(* Browsers of the batch tasks                                             *)
(***************************************************************************)
\* the batch task has completed: it returned its results or raised
Completed(t) == t.pc \in {"done", "raised"}

PageRows(file, url) == SelectSeq(file, LAMBDA r : r.page_url = url)

\* a step of the merge that writes the ledger file
MergeWrites == pc = "merge" /\ ledger' # ledger

\* C38: the merge after an accepted retry pass changes only the rows of the
\* retried page_urls: for every other page_url, the rows in the ledger after
\* the merge are the rows that were there just before the merge.
C38_MergeKeepsOtherRows ==
    [][MergeWrites =>
          \A url \in Urls \ Range(failed_urls) : PageRows(ledger', url) = PageRows(ledger, url)]_vars

(***************************************************************************)
(* _handle_exit step by step, with cleanup steps that fail                 *)
(***************************************************************************)
\* how a cleanup step ends: it completes, it fails with an exception caught
\* inside the step, or the exception leaves the step
StepOutcomes == {"done", "failed", "raised"}

\* the cleanup steps of _handle_exit in the order of lines 94-116
StepOrder == <<"cleanup_threads", "cleanup_processes", "final_statistics",
               "cleanup_components", "restore_terminal", "exit">>

StepRank(step) == CHOOSE k \in DOMAIN StepOrder : StepOrder[k] = step

\* mutant: an exception that leaves a cleanup step leaves _handle_exit too
AfterRaise_propagates == "returned"

\* _handle_exit, lines 110-116: except Exception logs, finally restores the
\* terminal
AfterRaise == "restore_terminal"

\* the step after cleanup_processes: the statistics only with a progress tracker
AfterProcesses(h) == IF h.progress_tracker THEN "final_statistics" ELSE "cleanup_components"

\* a step has run and ended with the ending
Ran(h, step, ending, next) ==
    [h EXCEPT !.trace = Append(@, <<step, ending>>),
              !.step = IF ending = "raised" THEN AfterRaise ELSE next]

\* _handle_exit, lines 86 and 91-92: the first signal sets exit_requested; the
\* handler has a progress tracker and executors registered, or not
ExitFirstSignal ==
    /\ exit_handling.step = "idle"
    /\ \E progress_tracker \in BOOLEAN, executors \in BOOLEAN :
          exit_handling' = [exit_handling EXCEPT !.step = "cleanup_threads",
                                                 !.exit_requested = TRUE,
                                                 !.signals = 1,
                                                 !.progress_tracker = progress_tracker,
                                                 !.executors = executors]
    /\ UNCHANGED <<ledger, others, callers, safe_collector>>

\* _handle_exit, line 96: _cleanup_threads; executor.shutdown(wait=False), an
\* exception of which is caught in the loop (lines 66-71), and a wait that ends
\* at the deadline
ExitCleanupThreads ==
    /\ exit_handling.step = "cleanup_threads"
    /\ \E ending \in StepOutcomes :
          /\ ending = "failed" => exit_handling.executors
          /\ exit_handling' = Ran(exit_handling, "cleanup_threads", ending, "cleanup_processes")
    /\ UNCHANGED <<ledger, others, callers, safe_collector>>

\* _handle_exit, line 99: _cleanup_processes (its body is in try/except)
ExitCleanupProcesses ==
    /\ exit_handling.step = "cleanup_processes"
    /\ \E ending \in StepOutcomes :
          exit_handling' = Ran(exit_handling, "cleanup_processes", ending,
                               AfterProcesses(exit_handling))
    /\ UNCHANGED <<ledger, others, callers, safe_collector>>

\* _handle_exit, lines 102-106: _process_final_statistics inside its own
\* try/except Exception, so that an exception of it goes no further
ExitFinalStatistics ==
    /\ exit_handling.step = "final_statistics"
    /\ \E ending \in {"done", "failed"} :
          exit_handling' = Ran(exit_handling, "final_statistics", ending, "cleanup_components")
    /\ UNCHANGED <<ledger, others, callers, safe_collector>>

\* _handle_exit, line 109: _cleanup_components (each close in its own try/except)
ExitCleanupComponents ==
    /\ exit_handling.step = "cleanup_components"
    /\ \E ending \in StepOutcomes :
          exit_handling' = Ran(exit_handling, "cleanup_components", ending, "restore_terminal")
    /\ UNCHANGED <<ledger, others, callers, safe_collector>>

\* restore_terminal, lines 32-39: the body is in try/except Exception; called
\* from the finally of line 113 and, on a further signal, from line 88
ExitRestoreTerminal ==
    /\ exit_handling.step \in {"restore_terminal", "force_restore"}
    /\ \E ending \in {"done", "failed"} :
          exit_handling' = [exit_handling EXCEPT
                               !.trace = Append(@, <<"restore_terminal", ending>>),
                               !.step = IF exit_handling.step = "force_restore"
                                           THEN "force_exit" ELSE "exit"]
    /\ UNCHANGED <<ledger, others, callers, safe_collector>>

\* os._exit(0) of line 116, os._exit(1) of line 89
ExitProcess ==
    /\ exit_handling.step \in {"exit", "force_exit"}
    /\ exit_handling' = [exit_handling EXCEPT
                            !.trace = Append(@, <<"exit", "done">>),
                            !.step = "terminated",
                            !.exit_code = IF exit_handling.step = "force_exit" THEN <<1>> ELSE <<0>>]
    /\ UNCHANGED <<ledger, others, callers, safe_collector>>

\* _handle_exit, lines 86-89: a further signal while the handler is at work runs
\* _handle_exit again on the main thread, on top of the interrupted step
ExitFurtherSignal ==
    /\ exit_handling.step \notin {"idle", "terminated", "returned", "force_restore", "force_exit"}
    /\ exit_handling.signals < MaxExitSignals
    /\ exit_handling' = [exit_handling EXCEPT !.signals = @ + 1, !.step = "force_restore"]
    /\ UNCHANGED <<ledger, others, callers, safe_collector>>

ShutdownInit == CollectorInit

ShutdownNext ==
    \/ ExitFirstSignal
    \/ ExitCleanupThreads
    \/ ExitCleanupProcesses
    \/ ExitFinalStatistics
    \/ ExitCleanupComponents
    \/ ExitRestoreTerminal
    \/ ExitProcess
    \/ ExitFurtherSignal

\* the handler runs on the main thread and none of its steps blocks: the steps
\* of the handler go on; signals may or may not come
HandlerSteps ==
    \/ ExitCleanupThreads
    \/ ExitCleanupProcesses
    \/ ExitFinalStatistics
    \/ ExitCleanupComponents
    \/ ExitRestoreTerminal
    \/ ExitProcess

ShutdownSpec == ShutdownInit /\ [][ShutdownNext]_vars /\ WF_vars(HandlerSteps)

\* the steps of the trace, in the order they ran
TraceSteps == [k \in DOMAIN exit_handling.trace |-> exit_handling.trace[k][1]]

\* C39: a shutdown started by a first interrupt always reaches the terminated
\* state: whichever cleanup step fails or raises, the terminal is restored
\* right before the process exits, and the steps that run come in the order
\* pool cancellation, browser-process termination, statistics, component
\* cleanup, terminal restore, exit (a further signal that arrives after the
\* terminal restore restores the terminal once more before the exit).
C39_ShutdownTerminatesInOrder ==
    /\ [](\A j, k \in DOMAIN TraceSteps :
             j < k => /\ StepRank(TraceSteps[j]) <= StepRank(TraceSteps[k])
                      /\ exit_handling.signals = 1 =>
                            StepRank(TraceSteps[j]) < StepRank(TraceSteps[k]))
    /\ [](exit_handling.step = "terminated" =>
             /\ Len(TraceSteps) >= 2
             /\ TraceSteps[Len(TraceSteps)] = "exit"
             /\ TraceSteps[Len(TraceSteps) - 1] = "restore_terminal")
    /\ [](exit_handling.step # "returned")
    /\ (exit_handling.step # "idle" ~> exit_handling.step = "terminated")

\* the process has exited with code 0 after the browser-process termination
\* raised: statistics and component cleanup were skipped, the terminal was
\* restored
C39_Witness ==
    /\ exit_handling.step = "terminated"
    /\ exit_handling.exit_code = <<0>>
    /\ exit_handling.trace = <<<<"cleanup_threads", "failed">>, <<"cleanup_processes", "raised">>,
                               <<"restore_terminal", "done">>, <<"exit", "done">>>>


====
